---- MODULE Spec2Model ----
(***************************************************************************)
(* pdf-to-png-converter: one call of pdfToPng (src/src/pdfToPng.ts, the    *)
(* variant of lines 53-232) as a state machine over the event loop, and    *)
(* sanitizePath (lines 370-379) as a pure function over character strings. *)
(*                                                                         *)
(* A string is a sequence of one-character strings.  Every await of the    *)
(* code is a position of a process; every action is one event-loop step:   *)
(* the settling of one awaited collaborator promise together with the      *)
(* synchronous code that runs up to the next await.                        *)
(***************************************************************************)
EXTENDS Integers, Sequences, FiniteSets, TLC

(* ---------------------------------------------------------------- bounds *)
\* Largest page count of a document.
MaxPages == 2
\* Longest caller-supplied pagesToProcess list.
MaxLen == 2
\* Largest canvas width and height.
MaxDim == 2
\* Longest base path and longest target path handed to sanitizePath.
MaxBaseLen == 3
MaxTargetLen == 4

\* An optional value: undefined, or a defined value v as Some(v).
Undefined == << >>
Some(v) == <<v>>
Get(o) == o[1]

(* --------------------------------------------------------------- strings *)
SEP == "/"

RECURSIVE SplitAcc(_, _, _)
SplitAcc(s, cur, acc) ==
    IF s = << >> THEN Append(acc, cur)
    ELSE IF Head(s) = SEP THEN SplitAcc(Tail(s), << >>, Append(acc, cur))
    ELSE SplitAcc(Tail(s), Append(cur, Head(s)), acc)

\* s.split('/'): the segments between separators, empty ones included.
Split(s) == SplitAcc(s, << >>, << >>)

RECURSIVE JoinSegs(_)
\* segs.join('/')
JoinSegs(segs) ==
    IF segs = << >> THEN << >>
    ELSE IF Len(segs) = 1 THEN segs[1]
    ELSE segs[1] \o <<SEP>> \o JoinSegs(Tail(segs))

DotDot == <<".", ".">>

RECURSIVE NormalizeSegs(_, _, _)
NormalizeSegs(segs, res, allowAboveRoot) ==
    IF segs = << >> THEN res
    ELSE LET g == Head(segs)
             rest == Tail(segs)
         IN  IF g = << >> \/ g = <<".">> THEN NormalizeSegs(rest, res, allowAboveRoot)
             ELSE IF g = DotDot
                  THEN IF res # << >> /\ res[Len(res)] # DotDot
                       THEN NormalizeSegs(rest, SubSeq(res, 1, Len(res) - 1), allowAboveRoot)
                       ELSE IF allowAboveRoot
                            THEN NormalizeSegs(rest, Append(res, g), allowAboveRoot)
                            ELSE NormalizeSegs(rest, res, allowAboveRoot)
                  ELSE NormalizeSegs(rest, Append(res, g), allowAboveRoot)

\* node:path normalizeString: resolves '.' and '..' segments and drops empty ones.
normalizeString(path, allowAboveRoot) ==
    JoinSegs(NormalizeSegs(Split(path), << >>, allowAboveRoot))

isAbsolute(path) == path # << >> /\ path[1] = SEP

\* posix.normalize: a trailing separator of the input is kept.
posixNormalize(path) ==
    IF path = << >> THEN <<".">>
    ELSE LET abs == isAbsolute(path)
             trailing == path[Len(path)] = SEP
             p == normalizeString(path, ~abs)
         IN  IF p = << >>
             THEN (IF abs THEN <<SEP>> ELSE IF trailing THEN <<".", SEP>> ELSE <<".">>)
             ELSE (IF abs THEN <<SEP>> ELSE << >>) \o p \o (IF trailing THEN <<SEP>> ELSE << >>)

\* process.cwd(): the working directory of the process.
Cwd == <<"/", "c">>

\* posix.resolve(a, b): right to left until an absolute path is met, then the
\* working directory; the result is absolute and has no trailing separator.
posixResolve(a, b) ==
    LET rb == IF b = << >> THEN << >> ELSE b \o <<SEP>>
        absB == isAbsolute(b)
        rab == IF absB \/ a = << >> THEN rb ELSE a \o <<SEP>> \o rb
        absAB == absB \/ isAbsolute(a)
        rall == IF absAB THEN rab ELSE Cwd \o <<SEP>> \o rab
    IN  <<SEP>> \o normalizeString(rall, FALSE)

\* posix.join(a, b): the non-empty arguments joined by '/', normalized.
posixJoin(a, b) ==
    LET joined == IF a = << >> THEN b
                  ELSE IF b = << >> THEN a
                  ELSE a \o <<SEP>> \o b
    IN  posixNormalize(joined)

startsWith(s, prefix) ==
    Len(prefix) <= Len(s) /\ SubSeq(s, 1, Len(prefix)) = prefix

RECURSIVE ReplaceBackslashes(_)
\* targetPath.replace(/\\/g, posix.sep)
ReplaceBackslashes(s) ==
    IF s = << >> THEN << >>
    ELSE <<(IF Head(s) = "\\" THEN SEP ELSE Head(s))>> \o ReplaceBackslashes(Tail(s))

TraversalError == [threw |-> "Invalid path: Path traversal detected."]

\* The test with the separator left out of the prefix.
sanitizePathAcceptsRawPrefix(normalizedBasePath, resolvedPath) ==
    startsWith(resolvedPath, normalizedBasePath)

\* The base-containment test of sanitizePath.
sanitizePathAccepts(normalizedBasePath, resolvedPath) ==
    startsWith(resolvedPath, normalizedBasePath \o <<SEP>>) \/ resolvedPath = normalizedBasePath

\* sanitizePath(basePath, targetPath): the resolved path, or the thrown error.
sanitizePath(basePath, targetPath) ==
    LET normalizedBasePath == posixNormalize(basePath)
        normalizedTargetPath == posixNormalize(ReplaceBackslashes(targetPath))
        resolvedPath == posixResolve(normalizedBasePath, normalizedTargetPath)
    IN  IF sanitizePathAccepts(normalizedBasePath, resolvedPath)
        THEN [path |-> resolvedPath]
        ELSE TraversalError

(* ------------------------------------------------------ request and names *)
RECURSIVE NumberToString(_)
\* String(n) for n >= 0, as in a template literal.
NumberToString(n) ==
    IF n < 10 THEN <<SubSeq(<<"0", "1", "2", "3", "4", "5", "6", "7", "8", "9">>, n + 1, n + 1)[1]>>
    ELSE NumberToString(n \div 10) \o NumberToString(n % 10)

RECURSIVE LastIndexOf(_, _)
\* s.lastIndexOf(c), 1-based; 0 when c does not occur.
LastIndexOf(s, c) ==
    IF s = << >> THEN 0
    ELSE IF s[Len(s)] = c THEN Len(s)
    ELSE LastIndexOf(SubSeq(s, 1, Len(s) - 1), c)

\* parse(path).name: the last segment without its extension.
parseName(path) ==
    LET segs == SelectSeq(Split(path), LAMBDA g : g # << >>)
        base == IF segs = << >> THEN << >> ELSE segs[Len(segs)]
        dot == LastIndexOf(base, ".")
    IN  IF dot > 1 /\ base # DotDot THEN SubSeq(base, 1, dot - 1) ELSE base

\* PDF_TO_PNG_OPTIONS_DEFAULTS.outputFileMask
DefaultOutputFileMask == <<"b", "u", "f", "f", "e", "r">>

\* The two kinds of input: raw bytes, or the path of a file.
\* The bytes of the PDF.
FileBytes == <<"%", "P", "D", "F">>

BufferInput == [kind |-> "buffer", bytes |-> FileBytes]
PathInput == [kind |-> "path", path |-> <<"d", "/", "s", ".", "p", "d", "f">>]
PdfFiles == {BufferInput, PathInput}

isString(file) == file.kind = "path"

\* What fsPromises.readFile may resolve with: a Buffer that is a view into a
\* larger ArrayBuffer, an ArrayBuffer, or (from a stub) some other object.
ReadResults ==
    {[kind |-> "Buffer", buffer |-> <<"x">> \o FileBytes \o <<"y", "z">>,
      byteOffset |-> 1, byteLength |-> Len(FileBytes)],
     [kind |-> "ArrayBuffer", buffer |-> FileBytes, byteOffset |-> 0, byteLength |-> Len(FileBytes)],
     [kind |-> "object", buffer |-> << >>, byteOffset |-> 0, byteLength |-> 0]}

\* The whole backing store, the view's offset ignored.
bufferSliceWhole(buffer) == buffer.buffer

\* buffer.buffer.slice(buffer.byteOffset, buffer.byteOffset + buffer.byteLength)
bufferSlice(buffer) ==
    SubSeq(buffer.buffer, buffer.byteOffset + 1, buffer.byteOffset + buffer.byteLength)

\* The three branches on the value readFile resolved with.
arrayBufferOf(buffer) ==
    IF buffer.kind = "ArrayBuffer" THEN [value |-> buffer.buffer]
    ELSE IF buffer.kind = "Buffer" THEN [value |-> bufferSlice(buffer)]
    ELSE [threw |-> "Unsupported buffer type"]

\* The mask taken with the extension left on: parse(pdfFile).base.
defaultMaskWithExtension(file) ==
    IF isString(file)
    THEN LET segs == SelectSeq(Split(file.path), LAMBDA g : g # << >>) IN segs[Len(segs)]
    ELSE DefaultOutputFileMask

defaultMask(file) == IF isString(file) THEN parseName(file.path) ELSE DefaultOutputFileMask

\* The naming callbacks a caller passes: none, one that returns a plain file
\* name, one whose names climb out of the output folder.
MaskFuncs == {Undefined, Some("plain"), Some("escape")}

\* What the callback returns: a name, or undefined (the callback "partial"
\* names every page but the first).
outputFileMaskFunc(f, pageNumber) ==
    IF f = "plain" THEN Some(<<"p">> \o NumberToString(pageNumber))
    ELSE IF f = "escape" THEN Some(<<".", ".", "/", "e">> \o NumberToString(pageNumber))
    ELSE IF pageNumber = 1 THEN Undefined
    ELSE Some(<<"q">> \o NumberToString(pageNumber))

\* props?.outputFileMaskFunc?.(pageNumber)
maskedName(f, pageNumber) ==
    IF f = Undefined THEN Undefined ELSE outputFileMaskFunc(Get(f), pageNumber)

\* The callback consulted for a path input only.
pageNameMaskForPathOnly(file, f, pageNumber) ==
    IF isString(file) /\ maskedName(f, pageNumber) # Undefined THEN Get(maskedName(f, pageNumber))
    ELSE defaultMask(file) \o <<"_", "p", "a", "g", "e", "_">> \o NumberToString(pageNumber)
         \o <<".", "p", "n", "g">>

\* props?.outputFileMaskFunc?.(pageNumber) ?? `${defaultMask}_page_${pageNumber}.png`
pageName(file, f, pageNumber) ==
    IF maskedName(f, pageNumber) # Undefined THEN Get(maskedName(f, pageNumber))
    ELSE defaultMask(file) \o <<"_", "p", "a", "g", "e", "_">> \o NumberToString(pageNumber)
         \o <<".", "p", "n", "g">>

\* The page numbers the callback is called with: validPagesToProcess.map calls
\* it once for each element.
maskFuncCalls(f, valid) == IF f = Undefined THEN << >> ELSE valid

\* The output folder a caller names, relative to the working directory.
OutputFolders == {Undefined, Some(<<"o">>)}

\* Page numbers a caller may list for a document of n pages: every valid one,
\* one below the range and one above it.
PageValues(n) == 0..(n + 1)

RECURSIVE SeqsUpTo(_, _)
SeqsUpTo(S, k) ==
    IF k = 0 THEN {<< >>}
    ELSE LET shorter == SeqsUpTo(S, k - 1)
         IN  shorter \cup {Append(q, x) : q \in {r \in shorter : Len(r) = k - 1}, x \in S}

PageLists(n) == {Undefined} \cup {Some(l) : l \in SeqsUpTo(PageValues(n), MaxLen)}

\* processPagesInParallel and concurrencyLimit as the tests pass them.
ConcurrencyOptions ==
    {[processPagesInParallel |-> Undefined, concurrencyLimit |-> Undefined]}
    \cup {[processPagesInParallel |-> Some(TRUE), concurrencyLimit |-> Some(k)] : k \in 1..MaxLen}

\* The PNG bytes canvas.toBuffer yields for a page.
Png(pageNumber) == <<"png", pageNumber>>

(* ------------------------------------------------------------ the defaults *)
\* JavaScript values with their type.
Bool(b) == [t |-> "boolean", v |-> b]
Num(n) == [t |-> "number", v |-> n]
Str(x) == [t |-> "string", v |-> x]

\* VerbosityLevel.ERRORS
ERRORS == 0

PDF_TO_PNG_OPTIONS_DEFAULTS ==
    [viewportScale |-> Some(Num(1)),
     disableFontFace |-> Some(Bool(TRUE)),
     useSystemFonts |-> Some(Bool(FALSE)),
     enableXfa |-> Some(Bool(FALSE)),
     outputFileMask |-> Some(Str(DefaultOutputFileMask)),
     strictPagesToProcess |-> Some(Bool(FALSE)),
     pdfFilePassword |-> Undefined]

(* ------------------------------------------- NodeCanvasFactory's methods *)
InvalidSize == "Canvas width and height must be greater than zero"
MissingCanvas == "Canvas object is required"

\* new Canvas(width, height)
Canvas(width, height) == [width |-> width, height |-> height]

\* canvas.getContext('2d'): the context that paints on the canvas as it is.
getContext(canvas) == [of |-> canvas]

\* The test admitting zero.
validSizeNonNegative(width, height) == width >= 0 /\ height >= 0

\* width > 0 && height > 0
validSize(width, height) == width > 0 /\ height > 0

\* create(width, height): the handle returned, or the assertion's message.
create(width, height) ==
    IF ~validSize(width, height) THEN [threw |-> InvalidSize]
    ELSE LET canvas == Canvas(width, height)
         IN  [handle |-> [canvas |-> Some(canvas), context |-> Some(getContext(canvas))]]

\* reset with the size asserted before the canvas.
resetSizeFirst(canvasAndContext, width, height) ==
    IF ~validSize(width, height) THEN [threw |-> InvalidSize]
    ELSE IF canvasAndContext.canvas = Undefined THEN [threw |-> MissingCanvas]
    ELSE LET canvas == Canvas(width, height)
         IN  [handle |-> [canvas |-> Some(canvas), context |-> Some(getContext(canvas))]]

\* reset(canvasAndContext, width, height): the handle as the call leaves it,
\* or the message of the assertion that failed before anything was assigned.
reset(canvasAndContext, width, height) ==
    IF canvasAndContext.canvas = Undefined THEN [threw |-> MissingCanvas]
    ELSE IF ~validSize(width, height) THEN [threw |-> InvalidSize]
    ELSE LET canvas == Canvas(width, height)
         IN  [handle |-> [canvas |-> Some(canvas), context |-> Some(getContext(canvas))]]

\* destroy that leaves the context in the handle.
destroyKeepingContext(canvasAndContext) ==
    IF canvasAndContext.canvas = Undefined THEN [threw |-> MissingCanvas]
    ELSE [handle |-> [canvasAndContext EXCEPT !.canvas = Undefined], released |-> Canvas(0, 0)]

\* destroy(canvasAndContext): the handle as the call leaves it and the canvas
\* object it let go of, or the assertion's message.
destroy(canvasAndContext) ==
    IF canvasAndContext.canvas = Undefined THEN [threw |-> MissingCanvas]
    ELSE LET canvas == [Get(canvasAndContext.canvas) EXCEPT !.width = 0, !.height = 0]
         IN  [handle |-> [canvas |-> Undefined, context |-> Undefined], released |-> canvas]

\* The widths and heights tried: negative, zero and positive.
(* --------------------------------------------------------------- viewport *)
\* The scale taken from the defaults whatever the options say.
pageViewportScaleAlwaysDefault(pr) == Get(PDF_TO_PNG_OPTIONS_DEFAULTS.viewportScale).v

\* props?.viewportScale !== undefined ? props.viewportScale : PDF_TO_PNG_OPTIONS_DEFAULTS.viewportScale
pageViewportScale(pr) ==
    IF pr.viewportScale # Undefined THEN Get(pr.viewportScale)
    ELSE Get(PDF_TO_PNG_OPTIONS_DEFAULTS.viewportScale).v

\* The size, in points, of the page pdf.getPage(pageNumber) resolves with:
\* pages of one document differ in size.
viewBox(pageNumber) == [width |-> pageNumber, height |-> pageNumber + 1]

\* page.getViewport({ scale }): the page's size times the scale, unrotated.
getViewport(pageNumber, scale) ==
    [width |-> viewBox(pageNumber).width * scale,
     height |-> viewBox(pageNumber).height * scale,
     rotation |-> 0]

\* The scales a caller passes besides none: negative, zero, and two.
ViewportScales == {Some(0 - 1), Some(0), Some(2)}

(* ------------------------------------------------------------------ state *)
VARIABLES
    pdfFile,        \* the input: bytes or a path
    pdfFileBuffer,  \* the bytes handed to getDocument
    props,          \* the caller's options
    numPages,       \* pdfDocument.numPages
    pc,             \* the await pdfToPng is suspended at
    task,           \* one processPdfPage call per selected page
    renderError,    \* the reason Promise.all of the renders rejected with
    pngPagesOutput, \* the accumulator, as the caller sees the objects
    write,          \* one writer per output of the persist step
    writeError,     \* the reason Promise.all of the writers rejected with
    files,          \* what writeFile has put on disk
    calls,          \* how often each collaborator was invoked
    outcome,        \* what the caller got
    overtaken,      \* whether a render settled before one that was started earlier
    path,           \* sanitizePath's arguments and result
    docInit,        \* propsToPdfDocInitParams' argument, the defaults and the result
    factory         \* a NodeCanvasFactory handle and the last call on it

vars == <<pdfFile, pdfFileBuffer, props, numPages, pc, task, renderError, pngPagesOutput, write,
          writeError, files, calls, outcome, overtaken, path, docInit, factory>>

Pending == [kind |-> "pending"]
Returned(v) == [kind |-> "returned", value |-> v]
Rejected(e) == [kind |-> "rejected", error |-> e]
Err(what, i) == [error |-> what, at |-> i]
\* No error, no value.
None == Err("none", 0)

NoCalls ==
    [readFile |-> 0, getDocument |-> 0, opened |-> 0, cleanup |-> 0, mkdir |-> 0,
     maskFunc |-> << >>]
NoResult == [threw |-> "not called"]
NoDocInit == [called |-> FALSE]
\* A handle without canvas and context: { canvas: null, context: null }.
EmptyHandle == [canvas |-> Undefined, context |-> Undefined]
NoFactory ==
    [handle |-> EmptyHandle, op |-> "none", width |-> 0, height |-> 0,
     before |-> EmptyHandle, released |-> Undefined, result |-> "none"]
NoPath == [base |-> << >>, target |-> << >>, result |-> NoResult]

(* ------------------------------------------------------------- selection *)
\* An empty list taken for no list.
pagesToProcessEmptyAsDefault(pr, n) ==
    IF pr.pagesToProcess = Undefined \/ pr.pagesToProcess = Some(<< >>)
    THEN [i \in 1..n |-> i] ELSE Get(pr.pagesToProcess)

\* props?.pagesToProcess ?? Array.from({ length: numPages }, (_, index) => index + 1)
pagesToProcess(pr, n) ==
    IF pr.pagesToProcess = Undefined THEN [i \in 1..n |-> i] ELSE Get(pr.pagesToProcess)

\* The filter without its lower bound.
isValidPageNoLowerBound(pageNumber, n) == pageNumber <= n

\* The filter's test: pageNumber <= pdfDocument.numPages && pageNumber >= 1
isValidPage(pageNumber, n) == pageNumber <= n /\ pageNumber >= 1

validPagesToProcess(pr, n) ==
    SelectSeq(pagesToProcess(pr, n), LAMBDA pageNumber : isValidPage(pageNumber, n))

\* The option read with a default of false.
returnPageContentFalsy(pr) ==
    IF pr.returnPageContent = Undefined THEN FALSE ELSE Get(pr.returnPageContent)

\* props?.returnPageContent ?? true, the argument processPdfPage gets
returnPageContent(pr) ==
    IF pr.returnPageContent = Undefined THEN TRUE ELSE Get(pr.returnPageContent)

(* ---------------------------------------------------------- processPdfPage *)
\* A call of processPdfPage suspended at pdf.getPage(pageNumber).
NewTask(pageNumber, name) ==
    [pageNumber |-> pageNumber, name |-> name, st |-> "getPage", viewport |-> Undefined,
     created |-> 0, destroyed |-> 0, pageCleanups |-> 0, settled |-> None,
     canvas |-> Undefined, released |-> Undefined, steps |-> << >>]

\* getPage resolved: the viewport is taken and canvasFactory.create called with
\* its size, outside the try; when create throws processPdfPage rejects with
\* its error, else the canvas is there and render is awaited. The canvas is a
\* new object: it is named after the call i that made it. steps lists the
\* steps of the call completed so far.
afterGetPage(t, scale, i) ==
    LET viewport == getViewport(t.pageNumber, scale)
        canvasAndContext == create(viewport.width, viewport.height)
    IN  IF "threw" \in DOMAIN canvasAndContext
        THEN [t EXCEPT !.viewport = Some(viewport), !.st = "rejected",
                       !.settled = Err(canvasAndContext.threw, i),
                       !.steps = @ \o <<"getPage">>]
        ELSE [t EXCEPT !.viewport = Some(viewport), !.st = "render", !.created = @ + 1,
                       !.canvas = Some(i), !.steps = @ \o <<"getPage", "create">>]

\* finally { page.cleanup(); canvasFactory.destroy({ canvas, context }); }
\* The finally block with its two calls exchanged.
finallyBlockDestroyFirst(t) ==
    [t EXCEPT !.pageCleanups = @ + 1, !.destroyed = @ + 1, !.released = t.canvas,
              !.steps = @ \o <<"destroy", "page.cleanup">>]

\* The finally block destroying the canvas of the first call.
finallyBlockFirstCanvas(t) ==
    [t EXCEPT !.pageCleanups = @ + 1, !.destroyed = @ + 1, !.released = Some(1),
              !.steps = @ \o <<"page.cleanup", "destroy">>]

finallyBlock(t) ==
    [t EXCEPT !.pageCleanups = @ + 1, !.destroyed = @ + 1, !.released = t.canvas,
              !.steps = @ \o <<"page.cleanup", "destroy">>]

\* The PngPageOutput built after the render promise resolved.
pngPageOutput(t, wantContent) ==
    [pageNumber |-> t.pageNumber, name |-> t.name,
     content |-> IF wantContent THEN Png(t.pageNumber) ELSE Undefined,
     path |-> << >>,
     width |-> Get(t.viewport).width,
     height |-> Get(t.viewport).height]

\* The render promise resolved: the PNG is encoded when wanted, the output
\* built, and the finally block runs.
renderResolved(t, wantContent) ==
    finallyBlock([t EXCEPT !.st = "fulfilled", !.settled = pngPageOutput(t, wantContent),
                           !.steps = @ \o <<"render">>
                                       \o (IF wantContent THEN <<"toBuffer">> ELSE << >>)])

\* The render promise rejected, or canvas.toBuffer threw, inside the try.
renderThrew(t, e) ==
    finallyBlock([t EXCEPT !.st = "rejected", !.settled = e,
                           !.steps = @ \o (IF e.error = "toBuffer" THEN <<"render">> ELSE << >>)])

\* Promise.all rejects with the reason of the first input promise to reject.
firstRejection(current, e) == IF current = None THEN e ELSE current

\* A join that hands the values over last promise first.
promiseAllValuesReversed(tasks) ==
    [i \in 1..Len(tasks) |-> tasks[Len(tasks) + 1 - i].settled]

\* Promise.all resolves with the values in the order of its input promises.
promiseAllValues(tasks) == [i \in 1..Len(tasks) |-> tasks[i].settled]

Tasks == 1..Len(task)

(* -------------------------------------------------------------------- Init *)
\* The calls on a document of n pages: every page list with every concurrency
\* option, with and without an output folder; and every combination of the
\* other options on the whole document; and every page list with a naming
\* callback that leaves a page unnamed; and every scale on the whole document.
Requests(n) ==
    [pagesToProcess : PageLists(n),
     outputFolder : OutputFolders,
     returnPageContent : {Undefined},
     outputFileMaskFunc : {Undefined},
     concurrency : ConcurrencyOptions,
     viewportScale : {Undefined}]
    \cup
    [pagesToProcess : {Undefined},
     outputFolder : OutputFolders,
     returnPageContent : {Undefined, Some(TRUE), Some(FALSE)},
     outputFileMaskFunc : MaskFuncs,
     concurrency : ConcurrencyOptions,
     viewportScale : {Undefined}]
    \cup
    [pagesToProcess : PageLists(n),
     outputFolder : {Undefined},
     returnPageContent : {Undefined},
     outputFileMaskFunc : {Some("partial")},
     concurrency : {[processPagesInParallel |-> Undefined, concurrencyLimit |-> Undefined]},
     viewportScale : {Undefined}]
    \cup
    [pagesToProcess : {Undefined},
     outputFolder : {Undefined},
     returnPageContent : {Undefined},
     outputFileMaskFunc : {Undefined},
     concurrency : {[processPagesInParallel |-> Undefined, concurrencyLimit |-> Undefined]},
     viewportScale : ViewportScales]

Init ==
    /\ pdfFile \in PdfFiles
    /\ pdfFileBuffer = IF isString(pdfFile) THEN Undefined ELSE Some(pdfFile.bytes)
    /\ numPages \in 1..MaxPages
    /\ props \in Requests(numPages)
    /\ pc = IF isString(pdfFile) THEN "readFile" ELSE "getDocument"
    /\ task = << >>
    /\ renderError = None
    /\ pngPagesOutput = << >>
    /\ write = << >>
    /\ writeError = None
    /\ files = {}
    /\ calls = IF isString(pdfFile) THEN [NoCalls EXCEPT !.readFile = 1]
               ELSE [NoCalls EXCEPT !.getDocument = 1]
    /\ outcome = Pending
    /\ overtaken = FALSE
    /\ path = NoPath
    /\ docInit = NoDocInit
    /\ factory = NoFactory

(* ------------------------------------------------- getPdfFileBuffer, open *)
Settle(o) ==
    /\ outcome' = o
    /\ pc' = "done"

\* fsPromises.readFile resolved with a Buffer: getPdfDocument is called.
ReadFileOk ==
    /\ pc = "readFile"
    /\ \E buffer \in ReadResults :
          /\ "value" \in DOMAIN arrayBufferOf(buffer)
          /\ pdfFileBuffer' = Some(arrayBufferOf(buffer).value)
    /\ pc' = "getDocument"
    /\ calls' = [calls EXCEPT !.getDocument = @ + 1]
    /\ UNCHANGED <<pdfFile, props, numPages, task, renderError, pngPagesOutput, write,
                   writeError, files, outcome, overtaken, path, docInit, factory>>

\* fsPromises.readFile rejected, or resolved with neither Buffer nor ArrayBuffer.
ReadFileFail ==
    /\ pc = "readFile"
    /\ \E e \in {Err("readFile", 0)}
                \cup {Err(arrayBufferOf(buffer).threw, 0) :
                         buffer \in {b \in ReadResults : "threw" \in DOMAIN arrayBufferOf(b)}} :
          Settle(Rejected(e))
    /\ UNCHANGED <<pdfFile, pdfFileBuffer, props, numPages, task, renderError, pngPagesOutput, write,
                   writeError, files, calls, overtaken, path, docInit, factory>>

\* getDocument(...).promise resolved: the pages are selected and every
\* processPdfPage call is started, each running up to its getPage await.
GetDocumentOk ==
    /\ pc = "getDocument"
    /\ LET valid == validPagesToProcess(props, numPages)
       IN  task' = [i \in 1..Len(valid) |->
                      NewTask(valid[i], pageName(pdfFile, props.outputFileMaskFunc, valid[i]))]
    /\ pc' = "render"
    /\ calls' = [calls EXCEPT !.opened = @ + 1,
                              !.maskFunc = maskFuncCalls(props.outputFileMaskFunc,
                                                         validPagesToProcess(props, numPages))]
    /\ UNCHANGED <<pdfFile, pdfFileBuffer, props, numPages, renderError, pngPagesOutput, write,
                   writeError, files, outcome, overtaken, path, docInit, factory>>

\* The engine's error swallowed, an empty result returned.
GetDocumentFailSwallowed ==
    /\ pc = "getDocument"
    /\ Settle(Returned(<< >>))
    /\ UNCHANGED <<pdfFile, pdfFileBuffer, props, numPages, task, renderError, pngPagesOutput, write,
                   writeError, files, calls, overtaken, path, docInit, factory>>

GetDocumentFail ==
    /\ pc = "getDocument"
    /\ Settle(Rejected(Err("getDocument", 0)))
    /\ UNCHANGED <<pdfFile, pdfFileBuffer, props, numPages, task, renderError, pngPagesOutput, write,
                   writeError, files, calls, overtaken, path, docInit, factory>>

(* ------------------------------------------------- the page renders' steps *)
\* Everything but the tasks and the join's rejection reason.
UnchangedByTask ==
    UNCHANGED <<pdfFile, pdfFileBuffer, props, numPages, pc, pngPagesOutput, write, writeError,
                files, calls, outcome, path, docInit, factory>>

\* A render settles while one started before it is still in flight.
overtakes(i) == \E j \in 1..(i - 1) : task[j].st \in {"getPage", "render"}

\* pdf.getPage(pageNumber) resolved.
GetPageOk(i) ==
    /\ task[i].st = "getPage"
    /\ task' = [task EXCEPT ![i] = afterGetPage(@, pageViewportScale(props), i)]
    /\ IF task'[i].st = "rejected"
       THEN /\ renderError' = firstRejection(renderError, task'[i].settled)
            /\ overtaken' = (overtaken \/ overtakes(i))
       ELSE UNCHANGED <<renderError, overtaken>>
    /\ UnchangedByTask

\* pdf.getPage(pageNumber) rejected: processPdfPage rejects before its try.
GetPageFail(i) ==
    /\ task[i].st = "getPage"
    /\ task' = [task EXCEPT ![i] = [@ EXCEPT !.st = "rejected", !.settled = Err("getPage", i)]]
    /\ renderError' = firstRejection(renderError, Err("getPage", i))
    /\ overtaken' = (overtaken \/ overtakes(i))
    /\ UnchangedByTask

\* page.render(...).promise resolved and the PNG was taken (when wanted).
RenderOk(i) ==
    /\ task[i].st = "render"
    /\ task' = [task EXCEPT ![i] = renderResolved(@, returnPageContent(props))]
    /\ overtaken' = (overtaken \/ overtakes(i))
    /\ UNCHANGED renderError
    /\ UnchangedByTask

\* page.render(...).promise rejected, or it resolved and canvas.toBuffer threw.
RenderFail(i) ==
    /\ task[i].st = "render"
    /\ \E what \in {"render"} \cup (IF returnPageContent(props) THEN {"toBuffer"} ELSE {}) :
          /\ task' = [task EXCEPT ![i] = renderThrew(@, Err(what, i))]
          /\ renderError' = firstRejection(renderError, Err(what, i))
    /\ overtaken' = (overtaken \/ overtakes(i))
    /\ UnchangedByTask

(* ------------------------------------------- the join, finally and cleanup *)
\* A join that never resumes when no page was selected.
RenderJoinFulfilledNonEmpty ==
    /\ pc = "render"
    /\ Tasks # {}
    /\ \A i \in Tasks : task[i].st = "fulfilled"
    /\ pngPagesOutput' = pngPagesOutput \o promiseAllValues(task)
    /\ pc' = "cleanup"
    /\ calls' = [calls EXCEPT !.cleanup = @ + 1]
    /\ UNCHANGED <<pdfFile, pdfFileBuffer, props, numPages, task, renderError, write, writeError,
                   files, outcome, overtaken, path, docInit, factory>>

\* await Promise.all(...) resumed with every value: they are pushed, and the
\* finally block calls pdfDocument.cleanup().
RenderJoinFulfilled ==
    /\ pc = "render"
    /\ \A i \in Tasks : task[i].st = "fulfilled"
    /\ pngPagesOutput' = pngPagesOutput \o promiseAllValues(task)
    /\ pc' = "cleanup"
    /\ calls' = [calls EXCEPT !.cleanup = @ + 1]
    /\ UNCHANGED <<pdfFile, pdfFileBuffer, props, numPages, task, renderError, write, writeError,
                   files, outcome, overtaken, path, docInit, factory>>

\* The first rejection leaves pdfToPng at once, as it would without try/finally.
RenderJoinRejectedNoFinally ==
    /\ pc = "render"
    /\ renderError # None
    /\ Settle(Rejected(renderError))
    /\ UNCHANGED <<pdfFile, pdfFileBuffer, props, numPages, task, renderError, pngPagesOutput, write,
                   writeError, files, calls, overtaken, path, docInit, factory>>

\* await Promise.all(...) threw the first rejection: the finally block calls
\* pdfDocument.cleanup() while the other renders go on.
RenderJoinRejected ==
    /\ pc = "render"
    /\ renderError # None
    /\ pc' = "cleanup"
    /\ calls' = [calls EXCEPT !.cleanup = @ + 1]
    /\ UNCHANGED <<pdfFile, pdfFileBuffer, props, numPages, task, renderError, pngPagesOutput, write,
                   writeError, files, outcome, overtaken, path, docInit, factory>>

\* join(process.cwd(), props.outputFolder)
outputFolder(pr) == posixJoin(Cwd, Get(pr.outputFolder))

\* pdfDocument.cleanup() resolved: a pending render error is rethrown; else the
\* output folder is made, or the outputs are returned when none was asked for.
\* The persist step entered whether or not a render failed.
CleanupOkPersistsAnyway ==
    /\ pc = "cleanup"
    /\ IF props.outputFolder = Undefined
       THEN Settle(IF renderError # None THEN Rejected(renderError)
                   ELSE Returned(pngPagesOutput)) /\ UNCHANGED calls
       ELSE /\ pc' = "mkdir"
            /\ calls' = [calls EXCEPT !.mkdir = @ + 1]
            /\ UNCHANGED outcome
    /\ UNCHANGED <<pdfFile, pdfFileBuffer, props, numPages, task, renderError, pngPagesOutput, write,
                   writeError, files, overtaken, path, docInit, factory>>

CleanupOk ==
    /\ pc = "cleanup"
    /\ IF renderError # None
       THEN Settle(Rejected(renderError)) /\ UNCHANGED calls
       ELSE IF props.outputFolder = Undefined
            THEN Settle(Returned(pngPagesOutput)) /\ UNCHANGED calls
            ELSE /\ pc' = "mkdir"
                 /\ calls' = [calls EXCEPT !.mkdir = @ + 1]
                 /\ UNCHANGED outcome
    /\ UNCHANGED <<pdfFile, pdfFileBuffer, props, numPages, task, renderError, pngPagesOutput, write,
                   writeError, files, overtaken, path, docInit, factory>>

\* pdfDocument.cleanup() rejected inside the finally block: its error leaves
\* pdfToPng, in place of a render error if one was pending.
CleanupFail ==
    /\ pc = "cleanup"
    /\ Settle(Rejected(Err("cleanup", 0)))
    /\ UNCHANGED <<pdfFile, pdfFileBuffer, props, numPages, task, renderError, pngPagesOutput, write,
                   writeError, files, calls, overtaken, path, docInit, factory>>

(* ------------------------------------------------------------ persisting *)
\* The path left at the bare name.
writePathUnjoined(folder, name) == name

\* pngPageOutput.path = join(outputFolder, pngPageOutput.name)
writePath(folder, name) == posixJoin(folder, name)

ContentUndefined(i) == Err("Cannot write PNG file because content is undefined.", i)

RECURSIVE firstUndefined(_, _)
\* The first writer that throws before its await: its rejection is the first.
firstUndefined(outs, i) ==
    IF i > Len(outs) THEN None
    ELSE IF outs[i].content = Undefined THEN ContentUndefined(i)
    ELSE firstUndefined(outs, i + 1)

\* The writers without the test of the content.
MkdirOkNoCheck ==
    /\ pc = "mkdir"
    /\ pngPagesOutput' = [i \in 1..Len(pngPagesOutput) |->
           [pngPagesOutput[i] EXCEPT !.path = posixJoin(posixJoin(Cwd, Get(props.outputFolder)), pngPagesOutput[i].name)]]
    /\ write' = [i \in 1..Len(pngPagesOutput) |-> "writeFile"]
    /\ pc' = "writeFile"
    /\ UNCHANGED <<pdfFile, pdfFileBuffer, props, numPages, task, renderError, writeError, files, calls, outcome, overtaken, path, docInit, factory>>

\* fsPromises.mkdir resolved (the folder's path was joined once, before the
\* call): every writer runs up to its first await: it sets
\* the path, throws if the content is undefined, else calls writeFile.
MkdirOk ==
    /\ pc = "mkdir"
    /\ \E resolvedOutputFolder \in {outputFolder(props)} :
          pngPagesOutput' = [i \in 1..Len(pngPagesOutput) |->
              [pngPagesOutput[i] EXCEPT
                  !.path = writePath(resolvedOutputFolder, pngPagesOutput[i].name)]]
    /\ write' = [i \in 1..Len(pngPagesOutput) |->
           IF pngPagesOutput[i].content = Undefined THEN "rejected" ELSE "writeFile"]
    /\ writeError' = firstUndefined(pngPagesOutput, 1)
    /\ pc' = "writeFile"
    /\ UNCHANGED <<pdfFile, pdfFileBuffer, props, numPages, task, renderError, files, calls, outcome, overtaken, path, docInit, factory>>

MkdirFail ==
    /\ pc = "mkdir"
    /\ Settle(Rejected(Err("mkdir", 0)))
    /\ UNCHANGED <<pdfFile, pdfFileBuffer, props, numPages, task, renderError, pngPagesOutput, write,
                   writeError, files, calls, overtaken, path, docInit, factory>>

\* fsPromises.writeFile(path, content) resolved: the file is on disk.
WriteFileOk(i) ==
    /\ write[i] = "writeFile"
    /\ write' = [write EXCEPT ![i] = "written"]
    /\ files' = files \cup {[path |-> pngPagesOutput[i].path, content |-> pngPagesOutput[i].content]}
    /\ UNCHANGED <<pdfFile, pdfFileBuffer, props, numPages, pc, task, renderError, pngPagesOutput,
                   writeError, calls, outcome, overtaken, path, docInit, factory>>

WriteFileFail(i) ==
    /\ write[i] = "writeFile"
    /\ write' = [write EXCEPT ![i] = "rejected"]
    /\ writeError' = firstRejection(writeError, Err("writeFile", i))
    /\ UNCHANGED <<pdfFile, pdfFileBuffer, props, numPages, pc, task, renderError, pngPagesOutput,
                   files, calls, outcome, overtaken, path, docInit, factory>>

\* The return without awaiting the writers.
WriteJoinFulfilledNoWait ==
    /\ pc = "writeFile"
    /\ Settle(Returned(pngPagesOutput))
    /\ UNCHANGED <<pdfFile, pdfFileBuffer, props, numPages, task, renderError, pngPagesOutput, write,
                   writeError, files, calls, overtaken, path, docInit, factory>>

\* The writers' Promise.all resolved: return pngPagesOutput.
WriteJoinFulfilled ==
    /\ pc = "writeFile"
    /\ \A i \in 1..Len(write) : write[i] = "written"
    /\ Settle(Returned(pngPagesOutput))
    /\ UNCHANGED <<pdfFile, pdfFileBuffer, props, numPages, task, renderError, pngPagesOutput, write,
                   writeError, files, calls, overtaken, path, docInit, factory>>

WriteJoinRejected ==
    /\ pc = "writeFile"
    /\ writeError # None
    /\ Settle(Rejected(writeError))
    /\ UNCHANGED <<pdfFile, pdfFileBuffer, props, numPages, task, renderError, pngPagesOutput, write,
                   writeError, files, calls, overtaken, path, docInit, factory>>

(* -------------------------------------------------------------------- Next *)
Next ==
    \/ ReadFileOk
    \/ ReadFileFail
    \/ GetDocumentOk
    \/ GetDocumentFail
    \/ \E i \in Tasks : GetPageOk(i)
    \/ \E i \in Tasks : GetPageFail(i)
    \/ \E i \in Tasks : RenderOk(i)
    \/ \E i \in Tasks : RenderFail(i)
    \/ RenderJoinFulfilled
    \/ RenderJoinRejected
    \/ CleanupOk
    \/ CleanupFail
    \/ MkdirFail
    \/ MkdirOk
    \/ \E i \in 1..Len(write) : WriteFileOk(i)
    \/ \E i \in 1..Len(write) : WriteFileFail(i)
    \/ WriteJoinFulfilled
    \/ WriteJoinRejected

Spec == Init /\ [][Next]_vars

\* The calls that leave the concurrency options out: pdfToPng never reads them.
LiveInit == Init /\ props.concurrency.processPagesInParallel = Undefined

\* Every awaited operation of a collaborator settles: as long as a step is
\* possible, one is taken.
LiveSpec == LiveInit /\ [][Next]_vars /\ WF_vars(Next)

(* ------------------------------------------------------------ sanitizePath *)
\* The characters of a base path, and those of a target path.
BaseChars == {"/", ".", "a"}
TargetChars == {"/", ".", "a", "\\"}

\* Every call sanitizePath(base, target) within the length bounds; no pdfToPng
\* call is under way.
PathInit ==
    /\ path \in [base : SeqsUpTo(BaseChars, MaxBaseLen),
                 target : SeqsUpTo(TargetChars, MaxTargetLen),
                 result : {NoResult}]
    /\ pdfFile = BufferInput
    /\ pdfFileBuffer = Undefined
    /\ numPages = 1
    /\ props = [pagesToProcess |-> Undefined, outputFolder |-> Undefined,
                returnPageContent |-> Undefined, outputFileMaskFunc |-> Undefined,
                concurrency |-> [processPagesInParallel |-> Undefined,
                                 concurrencyLimit |-> Undefined],
                viewportScale |-> Undefined]
    /\ pc = "done"
    /\ task = << >>
    /\ renderError = None
    /\ pngPagesOutput = << >>
    /\ write = << >>
    /\ writeError = None
    /\ files = {}
    /\ calls = NoCalls
    /\ outcome = Pending
    /\ overtaken = FALSE
    /\ docInit = NoDocInit
    /\ factory = NoFactory

SanitizePathCall ==
    /\ path.result = NoResult
    /\ path' = [path EXCEPT !.result = sanitizePath(path.base, path.target)]
    /\ UNCHANGED <<pdfFile, pdfFileBuffer, props, numPages, pc, task, renderError, pngPagesOutput, write,
                   writeError, files, calls, outcome, overtaken, docInit, factory>>

PathNext == SanitizePathCall

PathSpec == PathInit /\ [][PathNext]_vars

(* ------------------------------------------------ propsToPdfDocInitParams *)
DOCUMENT_INIT_PARAMS_DEFAULTS ==
    [cMapUrl |-> Some(Str("node_modules/pdfjs-dist/cmaps/")),
     cMapPacked |-> Some(Bool(TRUE)),
     standardFontDataUrl |-> Some(Str("node_modules/pdfjs-dist/standard_fonts/"))]

\* props?.key
Optional(pr, key) == IF pr = Undefined THEN Undefined ELSE Get(pr)[key]

\* v || d
CoalesceFalsy(v, d) ==
    IF v = Undefined THEN d
    ELSE IF Get(v).t = "boolean" /\ ~Get(v).v THEN d
    ELSE IF Get(v).t = "number" /\ Get(v).v = 0 THEN d
    ELSE IF Get(v).t = "string" /\ Get(v).v = "" THEN d
    ELSE v

\* v !== undefined ? v : d
Coalesce(v, d) == IF v # Undefined THEN v ELSE d

\* obj.key = value
Assign(obj, key, value) ==
    [k \in DOMAIN obj \cup {key} |-> IF k = key THEN value ELSE obj[k]]

\* Every property of props copied into the parameters after the defaults.
propsToPdfDocInitParamsSpreading(pr, defaults) ==
    LET o0 == IF pr = Undefined THEN defaults.documentInit
              ELSE [k \in DOMAIN defaults.documentInit \cup DOMAIN Get(pr) |->
                       IF k \in DOMAIN Get(pr) THEN Get(pr)[k] ELSE defaults.documentInit[k]]
        o1 == Assign(o0, "verbosity", Coalesce(Optional(pr, "verbosityLevel"), Some(Num(ERRORS))))
        o2 == Assign(o1, "password", Coalesce(Optional(pr, "pdfFilePassword"), defaults.options.pdfFilePassword))
    IN  o2

\* propsToPdfDocInitParams(props), reading the module's two defaults records.
propsToPdfDocInitParams(pr, defaults) ==
    LET o0 == [k \in DOMAIN defaults.documentInit |-> defaults.documentInit[k]]
        o1 == Assign(o0, "verbosity", Coalesce(Optional(pr, "verbosityLevel"), Some(Num(ERRORS))))
        o2 == Assign(o1, "disableFontFace",
                     Coalesce(Optional(pr, "disableFontFace"), defaults.options.disableFontFace))
        o3 == Assign(o2, "useSystemFonts",
                     Coalesce(Optional(pr, "useSystemFonts"), defaults.options.useSystemFonts))
        o4 == Assign(o3, "enableXfa", Coalesce(Optional(pr, "enableXfa"), defaults.options.enableXfa))
        o5 == Assign(o4, "password",
                     Coalesce(Optional(pr, "pdfFilePassword"), defaults.options.pdfFilePassword))
    IN  o5

Booleans == {Undefined, Some(Bool(TRUE)), Some(Bool(FALSE))}

\* The arguments: no props at all, or props with every combination of the
\* engine options and of three options that are not the engine's.
DocInitProps ==
    {Undefined} \cup
    {Some(o) : o \in [disableFontFace : Booleans,
                      useSystemFonts : Booleans,
                      enableXfa : Booleans,
                      verbosityLevel : {Undefined, Some(Num(0)), Some(Num(1)), Some(Num(5))},
                      pdfFilePassword : {Undefined, Some(Str("")), Some(Str("pw"))},
                      viewportScale : {Undefined, Some(Num(2))},
                      outputFolder : {Undefined, Some(Str("o"))},
                      pagesToProcess : {Undefined, Some(Str("1,2"))}]}

\* No pdfToPng call and no sanitizePath call is under way.
NoCall ==
    /\ pdfFile = BufferInput
    /\ pdfFileBuffer = Undefined
    /\ numPages = 1
    /\ props = [pagesToProcess |-> Undefined, outputFolder |-> Undefined,
                returnPageContent |-> Undefined, outputFileMaskFunc |-> Undefined,
                concurrency |-> [processPagesInParallel |-> Undefined,
                                 concurrencyLimit |-> Undefined],
                viewportScale |-> Undefined]
    /\ pc = "done"
    /\ task = << >>
    /\ renderError = None
    /\ pngPagesOutput = << >>
    /\ write = << >>
    /\ writeError = None
    /\ files = {}
    /\ calls = NoCalls
    /\ outcome = Pending
    /\ overtaken = FALSE
    /\ path = NoPath

DocInitInit ==
    /\ docInit \in [called : {FALSE},
                    props : DocInitProps,
                    defaults : {[options |-> PDF_TO_PNG_OPTIONS_DEFAULTS,
                                 documentInit |-> DOCUMENT_INIT_PARAMS_DEFAULTS]},
                    result : {Undefined}]
    /\ factory = NoFactory
    /\ NoCall

PropsToPdfDocInitParamsCall ==
    /\ ~docInit.called
    /\ docInit' = [docInit EXCEPT !.called = TRUE,
                                  !.result = Some(propsToPdfDocInitParams(docInit.props, docInit.defaults))]
    /\ UNCHANGED <<pdfFile, pdfFileBuffer, props, numPages, pc, task, renderError, pngPagesOutput,
                   write, writeError, files, calls, outcome, overtaken, path, factory>>

DocInitNext == PropsToPdfDocInitParamsCall

DocInitSpec == DocInitInit /\ [][DocInitNext]_vars

(* -------------------------------------------------------- NodeCanvasFactory *)
Dims == (0 - 1)..MaxDim

FactoryInit ==
    /\ factory = NoFactory
    /\ docInit = NoDocInit
    /\ NoCall

\* The call's outcome recorded with its arguments and the handle before it.
Called(op, width, height, r) ==
    /\ factory' = [handle |-> IF "handle" \in DOMAIN r THEN r.handle ELSE factory.handle,
                   op |-> op, width |-> width, height |-> height,
                   before |-> factory.handle,
                   released |-> IF "released" \in DOMAIN r THEN Some(r.released) ELSE Undefined,
                   result |-> IF "threw" \in DOMAIN r THEN r.threw ELSE "ok"]
    /\ UNCHANGED <<pdfFile, pdfFileBuffer, props, numPages, pc, task, renderError, pngPagesOutput,
                   write, writeError, files, calls, outcome, overtaken, path, docInit>>

Create(width, height) == Called("create", width, height, create(width, height))

Reset(width, height) == Called("reset", width, height, reset(factory.handle, width, height))

Destroy == Called("destroy", 0, 0, destroy(factory.handle))

FactoryNext ==
    \/ \E width, height \in Dims : Create(width, height)
    \/ \E width, height \in Dims : Reset(width, height)
    \/ Destroy

FactorySpec == FactoryInit /\ [][FactoryNext]_vars

(* ------------------------------------------------------ getPdfDocumentInfo *)
\* The entry of a page: its number and the viewport's width, height, rotation.
pageInfo(pageNumber, scale) ==
    LET viewport == getViewport(pageNumber, scale)
    IN  [pageNumber |-> pageNumber, width |-> viewport.width, height |-> viewport.height,
         rotation |-> viewport.rotation]

\* The callback of Array.from({ length: numPages }, ...) for a 0-based index,
\* before its getPage resolved; the function has no canvas factory and creates
\* no canvas.
NewInfoTask(index) ==
    [pageNumber |-> index + 1, st |-> "getPage", created |-> 0, pageCleanups |-> 0,
     settled |-> None]

\* The options getPdfDocumentInfo reads: the scale.
InfoRequests == [viewportScale : {Undefined} \cup ViewportScales]

InfoInit ==
    /\ pdfFile \in PdfFiles
    /\ pdfFileBuffer = IF isString(pdfFile) THEN Undefined ELSE Some(pdfFile.bytes)
    /\ numPages \in 1..MaxPages
    /\ props \in InfoRequests
    /\ pc = IF isString(pdfFile) THEN "readFile" ELSE "getDocument"
    /\ task = << >>
    /\ renderError = None
    /\ pngPagesOutput = << >>
    /\ write = << >>
    /\ writeError = None
    /\ files = {}
    /\ calls = IF isString(pdfFile) THEN [NoCalls EXCEPT !.readFile = 1]
               ELSE [NoCalls EXCEPT !.getDocument = 1]
    /\ outcome = Pending
    /\ overtaken = FALSE
    /\ path = NoPath
    /\ docInit = NoDocInit
    /\ factory = NoFactory

\* (await fsPromises.readFile(pdfFile)).buffer: getPdfDocument is called.
InfoReadFileOk ==
    /\ pc = "readFile"
    /\ \E buffer \in ReadResults : pdfFileBuffer' = Some(buffer.buffer)
    /\ pc' = "getDocument"
    /\ calls' = [calls EXCEPT !.getDocument = @ + 1]
    /\ UNCHANGED <<pdfFile, props, numPages, task, renderError, pngPagesOutput, write,
                   writeError, files, outcome, overtaken, path, docInit, factory>>

InfoReadFileFail ==
    /\ pc = "readFile"
    /\ Settle(Rejected(Err("readFile", 0)))
    /\ UNCHANGED <<pdfFile, pdfFileBuffer, props, numPages, task, renderError, pngPagesOutput, write,
                   writeError, files, calls, overtaken, path, docInit, factory>>

\* getPdfDocument resolved: every page's callback runs up to its getPage.
InfoGetDocumentOk ==
    /\ pc = "getDocument"
    /\ task' = [i \in 1..numPages |-> NewInfoTask(i - 1)]
    /\ pc' = "pages"
    /\ calls' = [calls EXCEPT !.opened = @ + 1]
    /\ UNCHANGED <<pdfFile, pdfFileBuffer, props, numPages, renderError, pngPagesOutput, write,
                   writeError, files, outcome, overtaken, path, docInit, factory>>

InfoGetDocumentFail ==
    /\ pc = "getDocument"
    /\ Settle(Rejected(Err("getDocument", 0)))
    /\ UNCHANGED <<pdfFile, pdfFileBuffer, props, numPages, task, renderError, pngPagesOutput, write,
                   writeError, files, calls, overtaken, path, docInit, factory>>

\* pdfDocument.getPage(pageNumber) resolved: the entry is built from the
\* viewport and the page cleaned up.
InfoGetPageOk(i) ==
    /\ task[i].st = "getPage"
    /\ task' = [task EXCEPT ![i] =
                   [@ EXCEPT !.st = "fulfilled", !.pageCleanups = @ + 1,
                             !.settled = pageInfo(task[i].pageNumber, pageViewportScale(props))]]
    /\ overtaken' = (overtaken \/ overtakes(i))
    /\ UNCHANGED renderError
    /\ UnchangedByTask

InfoGetPageFail(i) ==
    /\ task[i].st = "getPage"
    /\ task' = [task EXCEPT ![i] = [@ EXCEPT !.st = "rejected", !.settled = Err("getPage", i)]]
    /\ renderError' = firstRejection(renderError, Err("getPage", i))
    /\ overtaken' = (overtaken \/ overtakes(i))
    /\ UnchangedByTask

\* await Promise.all(...) resumed with the entries: the result is ready and
\* the finally block calls pdfDocument.cleanup().
InfoJoinFulfilled ==
    /\ pc = "pages"
    /\ \A i \in Tasks : task[i].st = "fulfilled"
    /\ pngPagesOutput' = promiseAllValues(task)
    /\ pc' = "cleanup"
    /\ calls' = [calls EXCEPT !.cleanup = @ + 1]
    /\ UNCHANGED <<pdfFile, pdfFileBuffer, props, numPages, task, renderError, write,
                   writeError, files, outcome, overtaken, path, docInit, factory>>

\* The rejection leaving without the finally block.
InfoJoinRejectedNoFinally ==
    /\ pc = "pages"
    /\ renderError # None
    /\ Settle(Rejected(renderError))
    /\ UNCHANGED <<pdfFile, pdfFileBuffer, props, numPages, task, renderError, pngPagesOutput, write,
                   writeError, files, calls, overtaken, path, docInit, factory>>

\* await Promise.all(...) resumed with the first rejection: the finally block
\* calls pdfDocument.cleanup().
InfoJoinRejected ==
    /\ pc = "pages"
    /\ renderError # None
    /\ pc' = "cleanup"
    /\ calls' = [calls EXCEPT !.cleanup = @ + 1]
    /\ UNCHANGED <<pdfFile, pdfFileBuffer, props, numPages, task, renderError, pngPagesOutput, write,
                   writeError, files, outcome, overtaken, path, docInit, factory>>

\* pdfDocument.cleanup() resolved: the pending return or throw completes.
InfoCleanupOk ==
    /\ pc = "cleanup"
    /\ IF renderError # None
       THEN Settle(Rejected(renderError))
       ELSE Settle(Returned([numPages |-> numPages, pages |-> pngPagesOutput]))
    /\ UNCHANGED <<pdfFile, pdfFileBuffer, props, numPages, task, renderError, pngPagesOutput, write,
                   writeError, files, calls, overtaken, path, docInit, factory>>

InfoCleanupFail ==
    /\ pc = "cleanup"
    /\ Settle(Rejected(Err("cleanup", 0)))
    /\ UNCHANGED <<pdfFile, pdfFileBuffer, props, numPages, task, renderError, pngPagesOutput, write,
                   writeError, files, calls, overtaken, path, docInit, factory>>

InfoNext ==
    \/ InfoReadFileOk
    \/ InfoReadFileFail
    \/ InfoGetDocumentOk
    \/ InfoGetDocumentFail
    \/ \E i \in Tasks : InfoGetPageOk(i)
    \/ \E i \in Tasks : InfoGetPageFail(i)
    \/ InfoJoinFulfilled
    \/ InfoJoinRejected
    \/ InfoCleanupOk
    \/ InfoCleanupFail

InfoSpec == InfoInit /\ [][InfoNext]_vars

(* ------------------------------------------ pdfToPng, one page at a time *)
InvalidPagesLow == "Invalid pages requested, page number must be >= 1"
InvalidPagesHigh == "Invalid pages requested, page number must be <= total pages"

\* props?.pagesToProcess !== undefined ? props.pagesToProcess : 1..numPages
targetedPageNumbers(pr, n) ==
    IF pr.pagesToProcess # Undefined THEN Get(pr.pagesToProcess) ELSE [i \in 1..n |-> i]

\* The strict checks without the one on the lower bound.
strictPagesErrorUpperOnly(pr, targeted, n) ==
    IF pr.strictPagesToProcess = Some(TRUE) /\ \E i \in 1..Len(targeted) : targeted[i] > n
    THEN Some(InvalidPagesHigh)
    ELSE Undefined

\* The two checks made when props?.strictPagesToProcess is true: the message
\* of the error thrown, if any.
strictPagesError(pr, targeted, n) ==
    IF pr.strictPagesToProcess = Some(TRUE) /\ \E i \in 1..Len(targeted) : targeted[i] < 1
    THEN Some(InvalidPagesLow)
    ELSE IF pr.strictPagesToProcess = Some(TRUE) /\ \E i \in 1..Len(targeted) : targeted[i] > n
    THEN Some(InvalidPagesHigh)
    ELSE Undefined

\* if (pageNumber > pdfDocument.numPages || pageNumber < 1) continue
skipsPage(pageNumber, n) == pageNumber > n \/ pageNumber < 1

RECURSIVE nextPage(_, _, _)
\* The position, from position from on, of the next page the loop does not
\* skip; past the end when there is none.
nextPage(targeted, from, n) ==
    IF from > Len(targeted) THEN from
    ELSE IF skipsPage(targeted[from], n) THEN nextPage(targeted, from + 1, n)
    ELSE from

\* An iteration of the for loop that has not begun.
NewIteration(pageNumber) ==
    [pageNumber |-> pageNumber, st |-> "waiting", viewport |-> Undefined, created |-> 0,
     pageCleanups |-> 0]

\* The name of a page when no naming callback is given.
sequentialName(file, pageNumber) ==
    (IF ~isString(file) THEN DefaultOutputFileMask ELSE parseName(file.path))
        \o <<"_", "p", "a", "g", "e", "_">> \o NumberToString(pageNumber) \o <<".", "p", "n", "g">>

\* The pngPageOutput built after the render, with path '' yet.
sequentialPageOutput(file, t) ==
    [pageNumber |-> t.pageNumber, name |-> sequentialName(file, t.pageNumber),
     content |-> Png(t.pageNumber), path |-> << >>,
     width |-> Get(t.viewport).width, height |-> Get(t.viewport).height]

\* The calls: every page list, strictPagesToProcess omitted, false and true,
\* with and without an output folder.
SequentialRequests(n) ==
    [pagesToProcess : PageLists(n),
     strictPagesToProcess : {Undefined, Some(FALSE), Some(TRUE)},
     outputFolder : OutputFolders,
     viewportScale : {Undefined}]

SequentialInit ==
    /\ pdfFile \in PdfFiles
    /\ pdfFileBuffer = IF isString(pdfFile) THEN Undefined ELSE Some(pdfFile.bytes)
    /\ numPages \in 1..MaxPages
    /\ props \in SequentialRequests(numPages)
    /\ pc = IF isString(pdfFile) THEN "readFile" ELSE "getDocument"
    /\ task = << >>
    /\ renderError = None
    /\ pngPagesOutput = << >>
    /\ write = << >>
    /\ writeError = None
    /\ files = {}
    /\ calls = IF isString(pdfFile) THEN [NoCalls EXCEPT !.readFile = 1]
               ELSE [NoCalls EXCEPT !.getDocument = 1]
    /\ outcome = Pending
    /\ overtaken = FALSE
    /\ path = NoPath
    /\ docInit = NoDocInit
    /\ factory = NoFactory

\* The for loop goes on from position from of the iterations its: pages out of
\* range are skipped, getPage is awaited for the next page in range, and when
\* there is none pdfDocument.cleanup() is awaited; c are the calls made so far.
ContinueLoop(its, from, c) ==
    LET targeted == [i \in 1..Len(its) |-> its[i].pageNumber]
        next == nextPage(targeted, from, numPages)
    IN  /\ task' = [i \in 1..Len(its) |->
                       IF i >= from /\ i < next THEN [its[i] EXCEPT !.st = "skipped"]
                       ELSE IF i = next THEN [its[i] EXCEPT !.st = "getPage"]
                       ELSE its[i]]
        /\ IF next > Len(its)
           THEN pc' = "cleanup" /\ calls' = [c EXCEPT !.cleanup = @ + 1]
           ELSE pc' = "loop" /\ calls' = c

\* promises.readFile resolved: getDocument is called.
SequentialReadFileOk ==
    /\ pc = "readFile"
    /\ \E buffer \in ReadResults : pdfFileBuffer' = Some(buffer.buffer)
    /\ pc' = "getDocument"
    /\ calls' = [calls EXCEPT !.getDocument = @ + 1]
    /\ UNCHANGED <<pdfFile, props, numPages, task, renderError, pngPagesOutput, write, writeError,
                   files, outcome, overtaken, path, docInit, factory>>

SequentialReadFileFail ==
    /\ pc = "readFile"
    /\ Settle(Rejected(Err("readFile", 0)))
    /\ UNCHANGED <<pdfFile, pdfFileBuffer, props, numPages, task, renderError, pngPagesOutput, write,
                   writeError, files, calls, overtaken, path, docInit, factory>>

\* getDocument resolved: the strict checks throw, or the folder is made when
\* one is asked for, or the loop begins.
SequentialGetDocumentOk ==
    /\ pc = "getDocument"
    /\ LET targeted == targetedPageNumbers(props, numPages)
           its == [i \in 1..Len(targeted) |-> NewIteration(targeted[i])]
           opened == [calls EXCEPT !.opened = @ + 1]
           thrown == strictPagesError(props, targeted, numPages)
       IN  IF thrown # Undefined
           THEN /\ Settle(Rejected(Err(Get(thrown), 0)))
                /\ task' = its
                /\ calls' = opened
           ELSE IF props.outputFolder # Undefined
           THEN /\ pc' = "mkdir"
                /\ task' = its
                /\ calls' = [opened EXCEPT !.mkdir = @ + 1]
                /\ UNCHANGED outcome
           ELSE ContinueLoop(its, 1, opened) /\ UNCHANGED outcome
    /\ UNCHANGED <<pdfFile, pdfFileBuffer, props, numPages, renderError, pngPagesOutput, write,
                   writeError, files, overtaken, path, docInit, factory>>

SequentialGetDocumentFail ==
    /\ pc = "getDocument"
    /\ Settle(Rejected(Err("getDocument", 0)))
    /\ UNCHANGED <<pdfFile, pdfFileBuffer, props, numPages, task, renderError, pngPagesOutput, write,
                   writeError, files, calls, overtaken, path, docInit, factory>>

\* promises.mkdir resolved: the loop begins.
SequentialMkdirOk ==
    /\ pc = "mkdir"
    /\ ContinueLoop(task, 1, calls)
    /\ UNCHANGED <<pdfFile, pdfFileBuffer, props, numPages, renderError, pngPagesOutput, write, writeError,
                   files, outcome, overtaken, path, docInit, factory>>

SequentialMkdirFail ==
    /\ pc = "mkdir"
    /\ Settle(Rejected(Err("mkdir", 0)))
    /\ UNCHANGED <<pdfFile, pdfFileBuffer, props, numPages, task, renderError, pngPagesOutput, write,
                   writeError, files, calls, overtaken, path, docInit, factory>>

\* pdfDocument.getPage resolved: the viewport is taken, the canvas created (an
\* error of create leaves the function) and page.render awaited.
SequentialGetPageOk(i) ==
    /\ pc = "loop"
    /\ task[i].st = "getPage"
    /\ LET viewport == getViewport(task[i].pageNumber, pageViewportScale(props))
           canvasAndContext == create(viewport.width, viewport.height)
       IN  IF "threw" \in DOMAIN canvasAndContext
           THEN /\ task' = [task EXCEPT ![i] = [@ EXCEPT !.viewport = Some(viewport),
                                                         !.st = "rejected"]]
                /\ Settle(Rejected(Err(canvasAndContext.threw, i)))
           ELSE /\ task' = [task EXCEPT ![i] = [@ EXCEPT !.viewport = Some(viewport),
                                                         !.st = "render", !.created = @ + 1]]
                /\ UNCHANGED <<pc, outcome>>
    /\ UNCHANGED <<pdfFile, pdfFileBuffer, props, numPages, renderError, pngPagesOutput, write, writeError,
                   files, calls, overtaken, path, docInit, factory>>

SequentialGetPageFail(i) ==
    /\ pc = "loop"
    /\ task[i].st = "getPage"
    /\ task' = [task EXCEPT ![i] = [@ EXCEPT !.st = "rejected"]]
    /\ Settle(Rejected(Err("getPage", i)))
    /\ UNCHANGED <<pdfFile, pdfFileBuffer, props, numPages, renderError, pngPagesOutput, write, writeError,
                   files, calls, overtaken, path, docInit, factory>>

\* page.render(...).promise resolved: the output is built; with an output
\* folder its path is resolved and writeFile awaited, else the output is
\* pushed, the page cleaned up and the loop goes on.
SequentialRenderOk(i) ==
    /\ pc = "loop"
    /\ task[i].st = "render"
    /\ LET output == sequentialPageOutput(pdfFile, task[i])
       IN  IF props.outputFolder # Undefined
           THEN /\ write' = <<[output EXCEPT
                                   !.path = posixResolve(Get(props.outputFolder), output.name)]>>
                /\ task' = [task EXCEPT ![i] = [@ EXCEPT !.st = "writeFile"]]
                /\ UNCHANGED <<pc, calls, pngPagesOutput>>
           ELSE /\ pngPagesOutput' = Append(pngPagesOutput, output)
                /\ ContinueLoop([task EXCEPT ![i] = [@ EXCEPT !.st = "done",
                                                              !.pageCleanups = @ + 1]],
                                i + 1, calls)
                /\ UNCHANGED write
    /\ UNCHANGED <<pdfFile, pdfFileBuffer, props, numPages, renderError, writeError, files,
                   outcome, overtaken, path, docInit, factory>>

SequentialRenderFail(i) ==
    /\ pc = "loop"
    /\ task[i].st = "render"
    /\ task' = [task EXCEPT ![i] = [@ EXCEPT !.st = "rejected"]]
    /\ \E what \in {"render", "toBuffer"} : Settle(Rejected(Err(what, i)))
    /\ UNCHANGED <<pdfFile, pdfFileBuffer, props, numPages, renderError, pngPagesOutput, write, writeError,
                   files, calls, overtaken, path, docInit, factory>>

\* promises.writeFile resolved: the file is on disk, the output is pushed, the
\* page cleaned up and the loop goes on.
SequentialWriteFileOk(i) ==
    /\ pc = "loop"
    /\ task[i].st = "writeFile"
    /\ files' = files \cup {write[1].path}
    /\ pngPagesOutput' = Append(pngPagesOutput, write[1])
    /\ write' = << >>
    /\ ContinueLoop([task EXCEPT ![i] = [@ EXCEPT !.st = "done", !.pageCleanups = @ + 1]],
                    i + 1, calls)
    /\ UNCHANGED <<pdfFile, pdfFileBuffer, props, numPages, renderError, writeError,
                   outcome, overtaken, path, docInit, factory>>

SequentialWriteFileFail(i) ==
    /\ pc = "loop"
    /\ task[i].st = "writeFile"
    /\ task' = [task EXCEPT ![i] = [@ EXCEPT !.st = "rejected"]]
    /\ Settle(Rejected(Err("writeFile", i)))
    /\ UNCHANGED <<pdfFile, pdfFileBuffer, props, numPages, renderError, pngPagesOutput, write, writeError,
                   files, calls, overtaken, path, docInit, factory>>

\* pdfDocument.cleanup() resolved: the outputs are returned.
SequentialCleanupOk ==
    /\ pc = "cleanup"
    /\ Settle(Returned(pngPagesOutput))
    /\ UNCHANGED <<pdfFile, pdfFileBuffer, props, numPages, task, renderError, pngPagesOutput, write,
                   writeError, files, calls, overtaken, path, docInit, factory>>

SequentialCleanupFail ==
    /\ pc = "cleanup"
    /\ Settle(Rejected(Err("cleanup", 0)))
    /\ UNCHANGED <<pdfFile, pdfFileBuffer, props, numPages, task, renderError, pngPagesOutput, write,
                   writeError, files, calls, overtaken, path, docInit, factory>>

SequentialNext ==
    \/ SequentialReadFileOk
    \/ SequentialReadFileFail
    \/ SequentialGetDocumentOk
    \/ SequentialGetDocumentFail
    \/ SequentialMkdirOk
    \/ SequentialMkdirFail
    \/ \E i \in Tasks : SequentialGetPageOk(i)
    \/ \E i \in Tasks : SequentialGetPageFail(i)
    \/ \E i \in Tasks : SequentialRenderOk(i)
    \/ \E i \in Tasks : SequentialRenderFail(i)
    \/ \E i \in Tasks : SequentialWriteFileOk(i)
    \/ \E i \in Tasks : SequentialWriteFileFail(i)
    \/ SequentialCleanupOk
    \/ SequentialCleanupFail

SequentialSpec == SequentialInit /\ [][SequentialNext]_vars

(* ------------------------------------------------------------ properties *)
PageNumbers(outs) == [i \in 1..Len(outs) |-> outs[i].pageNumber]

RECURSIVE InRange(_, _)
\* The entries of l that lie in 1..n, in the order of l.
InRange(l, n) ==
    IF l = << >> THEN << >>
    ELSE (IF Head(l) \in 1..n THEN <<Head(l)>> ELSE << >>) \o InRange(Tail(l), n)

\* The page numbers a request for a document of n pages is to return.
Requested(pr, n) ==
    IF pr.pagesToProcess = Undefined THEN [i \in 1..n |-> i]
    ELSE InRange(Get(pr.pagesToProcess), n)

C2_ParallelOrder ==
    (props.concurrency.processPagesInParallel = Some(TRUE) /\ outcome.kind = "returned")
        => /\ Len(outcome.value) = Len(task)
           /\ \A i \in Tasks : outcome.value[i].pageNumber = task[i].pageNumber
           /\ PageNumbers(outcome.value) = Requested(props, numPages)

\* A returned parallel call of two different pages whose renders settled out of
\* their starting order.
C2_Witness ==
    /\ props.concurrency.processPagesInParallel = Some(TRUE)
    /\ outcome.kind = "returned"
    /\ overtaken
    /\ Len(outcome.value) >= 2
    /\ outcome.value[1].pageNumber # outcome.value[2].pageNumber

\* C3: pdfDocument.cleanup() is invoked at most once, never without an opened
\* document, and exactly once by the time a call that opened the document has
\* returned or rejected.
C3_CleanupOnce ==
    /\ calls.cleanup <= calls.opened
    /\ calls.opened <= 1
    /\ (outcome.kind # "pending" /\ calls.opened = 1) => calls.cleanup = 1

\* A call rejected with a render's error after the one cleanup.
C3_Witness ==
    /\ outcome.kind = "rejected"
    /\ outcome.error.error = "render"
    /\ calls.cleanup = 1

RECURSIVE Sum(_, _)
\* The sum of field f over the tasks.
Sum(tasks, f) == IF tasks = << >> THEN 0 ELSE Head(tasks)[f] + Sum(Tail(tasks), f)

\* The canvases created and not yet destroyed.
LiveSurfaces == Sum(task, "created") - Sum(task, "destroyed")

Settled(i) == task[i].st \in {"fulfilled", "rejected"}

\* The batch of the i-th selected page under a limit of k.
Batch(i, k) == (i - 1) \div k

\* C4: in parallel mode with concurrencyLimit k at most k surfaces are live at
\* any time, and no render of a later batch has been started while a render of
\* an earlier batch has not settled.
C4_BoundedConcurrency ==
    props.concurrency.processPagesInParallel = Some(TRUE) =>
        LET k == Get(props.concurrency.concurrencyLimit)
        IN  /\ LiveSurfaces <= k
            /\ \A i, j \in Tasks : Batch(i, k) < Batch(j, k) => Settled(i)

\* C5: a surface is destroyed at most once and only after its creation, it is
\* destroyed by the time its render has settled, and when pdfToPng has returned
\* or rejected as many surfaces have been destroyed as were created.
C5_SurfacesBalanced ==
    /\ \A i \in Tasks : /\ task[i].destroyed <= task[i].created
                         /\ task[i].created <= 1
                         /\ Settled(i) => task[i].destroyed = task[i].created
    /\ outcome.kind # "pending" => Sum(task, "created") = Sum(task, "destroyed")

\* C6: once a render or a writer has failed, pdfToPng does not return an array:
\* it rejects, and with the error of the first step that failed.
C6_ErrorUnmodified ==
    (outcome.kind # "pending" /\ (renderError # None \/ writeError # None))
        => outcome = Rejected(IF renderError # None THEN renderError ELSE writeError)

CollaboratorErrors ==
    {"readFile", "Unsupported buffer type", "getDocument", "getPage", "render",
     "toBuffer", "cleanup", "mkdir", "writeFile"}

\* C7: with an output folder and returnPageContent false, a call rejects only
\* with a collaborator's failure, and a returned call has written a file for
\* every output, each with a non-empty path and undefined content.
C7_PersistWithoutContent ==
    (props.outputFolder # Undefined /\ props.returnPageContent = Some(FALSE))
        => /\ outcome.kind = "rejected" => outcome.error.error \in CollaboratorErrors
           /\ outcome.kind = "returned" =>
                  \A i \in 1..Len(outcome.value) :
                      /\ outcome.value[i].path # << >>
                      /\ outcome.value[i].content = Undefined
                      /\ \E f \in files : f.path = outcome.value[i].path

\* The path lies below the folder, by whole segments.
Below(folder, p) == startsWith(p, folder \o <<SEP>>)

\* C8: no file is ever written outside the output folder, and a call whose
\* outputFileMaskFunc names a page '../...' does not return.
C8_TraversalRejected ==
    props.outputFolder # Undefined
        => /\ \A f \in files : Below(outputFolder(props), f.path)
           /\ (outcome.kind = "returned" /\ props.outputFileMaskFunc = Some("escape"))
                  => Len(outcome.value) = 0

\* The segments of an absolute path.
Segments(p) == SelectSeq(Split(p), LAMBDA g : g # << >>)

IsPrefixSeq(a, b) == Len(a) <= Len(b) /\ SubSeq(b, 1, Len(a)) = a

\* p is the base or a descendant of it, both taken as absolute paths.
Inside(base, p) == IsPrefixSeq(Segments(posixResolve(base, << >>)), Segments(p))

\* What the target resolves to against the base.
Resolved == posixResolve(path.base, ReplaceBackslashes(path.target))

\* C9: sanitizePath throws 'Invalid path: Path traversal detected.' or returns
\* a path that is the base or a descendant of it by whole segments; a target
\* that resolves outside the base, a sibling '/base-evil' included, is rejected.
C9_OnlyInsideAccepted ==
    path.result # NoResult =>
        /\ \/ path.result = TraversalError
           \/ Inside(path.base, path.result.path)
        /\ ~Inside(path.base, Resolved) => path.result = TraversalError

\* The sibling '/aa' of the base '/a' was rejected.
C9_Witness ==
    /\ path.base = <<"/", "a">>
    /\ path.target = <<"/", "a", "a">>
    /\ path.result = TraversalError

\* C10: whatever the base, absolute or relative, with or without a trailing
\* separator, a target that resolves inside it is returned resolved, not thrown.
C10_InsideAccepted ==
    (path.result # NoResult /\ Inside(path.base, Resolved))
        => path.result = [path |-> Resolved]
\* C11: every output of a returned call has undefined content when
\* returnPageContent is false and the page's PNG otherwise, the omitted option
\* included, with and without an output folder.
C11_ContentPresence ==
    outcome.kind = "returned" =>
        \A i \in 1..Len(outcome.value) :
            outcome.value[i].content =
                (IF props.returnPageContent = Some(FALSE) THEN Undefined
                 ELSE Png(outcome.value[i].pageNumber))

\* A returned call that left returnPageContent out and has the PNG, with a folder.
C11_Witness ==
    /\ outcome.kind = "returned"
    /\ props.returnPageContent = Undefined
    /\ props.outputFolder # Undefined
    /\ Len(outcome.value) >= 1
    /\ outcome.value[1].content = Png(outcome.value[1].pageNumber)

\* C12: without an output folder nothing is made or written and every output
\* of a returned call has the empty path; with one, every output of a returned
\* call has the non-empty path of the folder joined with its name.
C12_PathPresence ==
    /\ props.outputFolder = Undefined =>
           /\ calls.mkdir = 0 /\ write = << >> /\ files = {}
           /\ outcome.kind = "returned" =>
                  \A i \in 1..Len(outcome.value) : outcome.value[i].path = << >>
    /\ (props.outputFolder # Undefined /\ outcome.kind = "returned") =>
           \A i \in 1..Len(outcome.value) :
               /\ outcome.value[i].path # << >>
               /\ outcome.value[i].path =
                      posixJoin(posixJoin(Cwd, Get(props.outputFolder)), outcome.value[i].name)

\* A returned call with a folder and an output.
C12_Witness ==
    /\ outcome.kind = "returned"
    /\ props.outputFolder # Undefined
    /\ Len(outcome.value) >= 1
    /\ outcome.value[1].path # << >>

\* C13: when a call with an output folder has returned, the files on disk are
\* exactly one per output, at the output's path and holding the page's PNG, and
\* each writer has written once.
C13_FilesWritten ==
    (props.outputFolder # Undefined /\ outcome.kind = "returned") =>
        /\ files = {[path |-> outcome.value[i].path, content |-> Png(outcome.value[i].pageNumber)] :
                        i \in 1..Len(outcome.value)}
        /\ Len(write) = Len(outcome.value)
        /\ \A i \in 1..Len(write) : write[i] = "written"

\* A returned call that wrote the files of two pages.
C13_Witness ==
    /\ outcome.kind = "returned"
    /\ props.outputFolder # Undefined
    /\ Cardinality(files) = 2

\* C14: a writer whose output has undefined content never calls writeFile, and
\* the call it belongs to ends rejected with the content-undefined error.
C14_MissingContent ==
    \A i \in 1..Len(write) :
        pngPagesOutput[i].content = Undefined =>
            /\ write[i] = "rejected"
            /\ \A f \in files : f.path # pngPagesOutput[i].path
            /\ outcome.kind # "returned"
            /\ outcome.kind = "rejected" =>
                   \E j \in 1..Len(write) : outcome.error = ContentUndefined(j)

\* A call rejected with the content-undefined error of its first page.
C14_Witness ==
    /\ outcome = Rejected(ContentUndefined(1))
    /\ files = {}

\* C15: when getDocument has failed the call is rejected with the engine's
\* error; no page was retrieved, no surface created, nothing made or written.
C15_OpenFailure ==
    (pc = "done" /\ calls.getDocument = 1 /\ calls.opened = 0) =>
        /\ outcome = Rejected(Err("getDocument", 0))
        /\ task = << >>
        /\ pngPagesOutput = << >>
        /\ calls.cleanup = 0
        /\ calls.mkdir = 0
        /\ write = << >>
        /\ files = {}

\* The call rejected with the engine's error after reading the file.
C15_Witness ==
    /\ outcome = Rejected(Err("getDocument", 0))
    /\ calls.readFile = 1
\* C16: a byte-buffer input is never read from disk and reaches getDocument
\* unchanged; a path input is read once and what reaches getDocument is the
\* file's bytes; a call rejected by the read or by 'Unsupported buffer type'
\* has opened no document, rendered no page and written nothing.
C16_InputBytes ==
    /\ calls.readFile = (IF isString(pdfFile) THEN 1 ELSE 0)
    /\ calls.getDocument >= 1 =>
           pdfFileBuffer = Some(IF isString(pdfFile) THEN FileBytes ELSE pdfFile.bytes)
    /\ (outcome.kind = "rejected"
          /\ outcome.error.error \in {"readFile", "Unsupported buffer type"}) =>
           /\ isString(pdfFile)
           /\ calls.getDocument = 0 /\ calls.opened = 0
           /\ task = << >> /\ calls.mkdir = 0 /\ write = << >> /\ files = {}

\* A path input whose read gave an object that is no buffer.
C16_Witness ==
    /\ isString(pdfFile)
    /\ outcome = Rejected(Err("Unsupported buffer type", 0))
    /\ calls.getDocument = 0
\* The value the caller gave for an option, if any.
Given(key) == Optional(docInit.props, key)

\* The value of a key of the parameters returned.
Param(key) == Get(docInit.result)[key]

C18_TotalAndPure ==
    [][PropsToPdfDocInitParamsCall =>
          /\ docInit'.props = docInit.props
          /\ docInit'.defaults = docInit.defaults
          /\ docInit'.defaults.options = PDF_TO_PNG_OPTIONS_DEFAULTS
          /\ docInit'.defaults.documentInit = DOCUMENT_INIT_PARAMS_DEFAULTS
          /\ docInit'.result # Undefined
          /\ DOMAIN Get(docInit'.result) =
                 {"cMapUrl", "cMapPacked", "standardFontDataUrl", "verbosity",
                  "disableFontFace", "useSystemFonts", "enableXfa", "password"}
          /\ Get(docInit'.result).cMapUrl = DOCUMENT_INIT_PARAMS_DEFAULTS.cMapUrl
          /\ Get(docInit'.result).cMapPacked = Some(Bool(TRUE))
          /\ Get(docInit'.result).standardFontDataUrl = DOCUMENT_INIT_PARAMS_DEFAULTS.standardFontDataUrl]_vars

\* A call given viewportScale, outputFolder and pagesToProcess that kept them
\* out of the parameters.
C18_Witness ==
    /\ docInit.called
    /\ Given("viewportScale") # Undefined
    /\ Given("outputFolder") # Undefined
    /\ Given("pagesToProcess") # Undefined
    /\ "viewportScale" \notin DOMAIN Get(docInit.result)
\* C19: create fails with the invalid-size assertion exactly when the width or
\* the height is zero or less, leaving the handle as it was; otherwise the
\* handle it returns has a canvas of exactly that width and height and a
\* context.
C19_Create ==
    factory.op = "create" =>
        /\ (factory.result = InvalidSize) <=> (factory.width <= 0 \/ factory.height <= 0)
        /\ factory.result = InvalidSize => factory.handle = factory.before
        /\ factory.result # InvalidSize =>
               /\ factory.result = "ok"
               /\ factory.handle.canvas = Some([width |-> factory.width, height |-> factory.height])
               /\ factory.handle.context # Undefined

\* create(0, 1) failed with the invalid-size assertion.
C19_Witness ==
    /\ factory.op = "create"
    /\ factory.width = 0
    /\ factory.height = 1
    /\ factory.result = InvalidSize

\* C20: reset fails with the missing-canvas assertion when the handle has no
\* canvas, whatever the size; else with the invalid-size assertion when the
\* width or the height is zero or less; a failed reset leaves the handle as it
\* was; otherwise the canvas has the new size and the context is bound anew.
C20_Reset ==
    factory.op = "reset" =>
        IF factory.before.canvas = Undefined
        THEN factory.result = MissingCanvas /\ factory.handle = factory.before
        ELSE IF factory.width <= 0 \/ factory.height <= 0
        THEN factory.result = InvalidSize /\ factory.handle = factory.before
        ELSE /\ factory.result = "ok"
             /\ factory.handle.canvas = Some([width |-> factory.width, height |-> factory.height])
             /\ factory.handle.context # Undefined
             /\ Get(factory.handle.context).of = Get(factory.handle.canvas)

\* reset of a handle without canvas to width 0 failed on the missing canvas.
C20_Witness ==
    /\ factory.op = "reset"
    /\ factory.before.canvas = Undefined
    /\ factory.width = 0
    /\ factory.result = MissingCanvas
\* C21: destroy of a handle that has a canvas does not throw, leaves the canvas
\* it let go of at width 0 and height 0 and clears the canvas and the context
\* of the handle; destroy of a handle without canvas, one already destroyed
\* included, fails with the missing-canvas assertion and changes nothing.
C21_Destroy ==
    factory.op = "destroy" =>
        IF factory.before.canvas # Undefined
        THEN /\ factory.result = "ok"
             /\ factory.released = Some([width |-> 0, height |-> 0])
             /\ factory.handle.canvas = Undefined
             /\ factory.handle.context = Undefined
        ELSE /\ factory.result = MissingCanvas
             /\ factory.handle = factory.before

\* A destroy that cleared a handle which had a canvas.
C21_Witness ==
    /\ factory.op = "destroy"
    /\ factory.before.canvas # Undefined
    /\ factory.result = "ok"
    /\ factory.handle = EmptyHandle
\* The default name of a page: the mask is "s" for the input path "d/s.pdf"
\* and "buffer" for bytes.
DefaultName(file, pageNumber) ==
    (IF file.kind = "path" THEN <<"s">> ELSE <<"b", "u", "f", "f", "e", "r">>)
        \o <<"_", "p", "a", "g", "e", "_">> \o NumberToString(pageNumber)
        \o <<".", "p", "n", "g">>

MaskedOrDefault(file, f, pageNumber) ==
    IF outputFileMaskFunc(f, pageNumber) # Undefined THEN Get(outputFileMaskFunc(f, pageNumber))
    ELSE DefaultName(file, pageNumber)

\* C23: with outputFileMaskFunc f, for path and buffer inputs alike, f has been
\* called once for each selected page in order and for no other page number,
\* and every output is named f(pageNumber), or by the default name when f
\* returned undefined for its page.
C23_MaskFunc ==
    props.outputFileMaskFunc # Undefined =>
        LET f == Get(props.outputFileMaskFunc)
        IN  /\ calls.maskFunc = (IF calls.opened = 1 THEN Requested(props, numPages) ELSE << >>)
            /\ \A i \in Tasks : task[i].name = MaskedOrDefault(pdfFile, f, task[i].pageNumber)
            /\ outcome.kind = "returned" =>
                   \A i \in 1..Len(outcome.value) :
                       outcome.value[i].name = MaskedOrDefault(pdfFile, f, outcome.value[i].pageNumber)

\* A returned call on bytes whose callback named page 2 and left page 1 to the
\* default, after a page number out of range was filtered out.
C23_Witness ==
    /\ outcome.kind = "returned"
    /\ ~isString(pdfFile)
    /\ props.outputFileMaskFunc = Some("partial")
    /\ props.pagesToProcess = Some(<<0, 2>>)
    /\ calls.maskFunc = <<2>>
    /\ outcome.value[1].name = <<"q", "2">>
\* The renders in flight: page.render called and not yet settled.
InFlight == {i \in Tasks : task[i].st = "render"}

\* C24: with processPagesInParallel omitted at most one render is in flight,
\* and the render of a page has started only when the renders of the pages
\* before it have settled and their surfaces are destroyed.
C24_OneAtATime ==
    props.concurrency.processPagesInParallel = Undefined =>
        /\ Cardinality(InFlight) <= 1
        /\ \A i, j \in Tasks :
               (i < j /\ task[j].created = 1)
                   => (Settled(i) /\ task[i].destroyed = task[i].created)

\* The size of a batch: concurrencyLimit in parallel mode, else one page.
BatchSize ==
    IF props.concurrency.processPagesInParallel = Some(TRUE)
    THEN Get(props.concurrency.concurrencyLimit) ELSE 1

\* C25: once a step of a render has failed, no step starts the render of a page
\* of a later batch, and a call that opened the document is not rejected
\* before pdfDocument.cleanup() has been called.
C25_FailureStopsBatches ==
    [][/\ renderError.error \in {"render", "toBuffer"} =>
            \A j \in Tasks :
                (task[j].st = "getPage" /\ task'[j].st = "render")
                    => Batch(j, BatchSize) <= Batch(renderError.at, BatchSize)
       /\ (outcome'.kind = "rejected" /\ calls'.opened = 1) => calls'.cleanup >= 1]_vars

\* C26: with an output folder, mkdir has been called by the time the first
\* canvas is created for a render.
C26_FolderBeforeRender ==
    (props.outputFolder # Undefined /\ \E i \in Tasks : task[i].viewport # Undefined)
        => calls.mkdir >= 1

\* C27: whatever the scale, canvasFactory.create is called with a positive
\* width and height only, and no call is rejected with the factory's
\* invalid-size or missing-canvas message.
C27_PositiveSurface ==
    /\ \A i \in Tasks :
           task[i].viewport # Undefined
               => (Get(task[i].viewport).width > 0 /\ Get(task[i].viewport).height > 0)
    /\ outcome.kind = "rejected" => outcome.error.error \notin {InvalidSize, MissingCanvas}

\* C28: getPdfDocumentInfo returns numPages and one entry per page, entry i
\* for page i, whatever the order the pages were retrieved in; it creates no
\* canvas, makes no folder and writes no file; pdfDocument.cleanup() is called
\* at most once, and exactly once by the time it has returned or has rejected
\* with a page retrieval's error.
C28_DocumentInfo ==
    /\ outcome.kind = "returned" =>
           /\ outcome.value.numPages = numPages
           /\ Len(outcome.value.pages) = numPages
           /\ \A i \in 1..numPages : outcome.value.pages[i].pageNumber = i
           /\ calls.cleanup = 1
    /\ \A i \in Tasks : task[i].created = 0
    /\ files = {} /\ calls.mkdir = 0 /\ write = << >> /\ factory = NoFactory
    /\ calls.cleanup <= 1
    /\ (outcome.kind = "rejected" /\ outcome.error.error = "getPage") => calls.cleanup = 1

\* Two entries returned in page order although the second page was retrieved
\* first.
C28_Witness ==
    /\ outcome.kind = "returned"
    /\ overtaken
    /\ outcome.value.numPages = 2
    /\ outcome.value.pages[2].pageNumber = 2
    /\ calls.cleanup = 1

\* The scale the caller asked for, 1 when none was given.
RequestedScale == IF props.viewportScale = Undefined THEN 1 ELSE Get(props.viewportScale)

\* C30: every returned output carries the width and height of its page's
\* viewport at the requested scale, 1 by default: the values getPdfDocumentInfo
\* computes for the page, which at scale 2 are twice those at scale 1.
C30_Dimensions ==
    outcome.kind = "returned" =>
        \A i \in 1..Len(outcome.value) :
            LET o == outcome.value[i]
            IN  /\ o.width = pageInfo(o.pageNumber, RequestedScale).width
                /\ o.height = pageInfo(o.pageNumber, RequestedScale).height
                /\ props.viewportScale = Some(2) =>
                       /\ o.width = 2 * pageInfo(o.pageNumber, 1).width
                       /\ o.height = 2 * pageInfo(o.pageNumber, 1).height

\* A two-page document returned at scale 2: page 2 is 4 wide and 6 high.
C30_Witness ==
    /\ outcome.kind = "returned"
    /\ props.viewportScale = Some(2)
    /\ Len(outcome.value) = 2
    /\ outcome.value[2].width = 4
    /\ outcome.value[2].height = 6
\* The pages of the request that lie outside 1..numPages.
InvalidPages ==
    {i \in 1..Len(targetedPageNumbers(props, numPages)) :
        targetedPageNumbers(props, numPages)[i] \notin 1..numPages}

C31_PageCleanedUp ==
    \A i \in Tasks :
        /\ task[i].pageCleanups <= 1
        /\ (Settled(i) /\ task[i].viewport # Undefined) => task[i].pageCleanups = 1

\* C32: pdfDocument.cleanup() has not been called while a page.render of the
\* call is in flight.
C32_CleanupAfterRenders ==
    calls.cleanup >= 1 => InFlight = {}

\* C33: once a page's render has failed the call makes no folder and writes no
\* file; mkdir is called only when every selected page is rendered and
\* pdfDocument.cleanup() has been called and has resolved, and a file is
\* written only after mkdir.
C33_PersistAfterRenders ==
    /\ renderError # None => (calls.mkdir = 0 /\ files = {} /\ write = << >>)
    /\ calls.mkdir >= 1 =>
           /\ \A i \in Tasks : task[i].st = "fulfilled"
           /\ calls.cleanup = 1
           /\ pc \notin {"render", "cleanup"}
    /\ files # {} => calls.mkdir = 1

\* A call with an output folder rejected with a render's error although
\* another page was rendered: no folder, no file.
C33_Witness ==
    /\ props.outputFolder # Undefined
    /\ outcome.kind = "rejected"
    /\ outcome.error.error = "render"
    /\ \E i \in Tasks : task[i].st = "fulfilled"
    /\ calls.mkdir = 0
    /\ files = {}

\* C34: no two calls of processPdfPage hold the same canvas, a call holds a
\* canvas exactly when it created one, and the canvas a call destroys is the
\* one it created.
C34_OwnSurface ==
    /\ \A i, j \in Tasks :
           (i # j /\ task[i].canvas # Undefined) => task[i].canvas # task[j].canvas
    /\ \A i \in Tasks :
           /\ task[i].created <= 1
           /\ (task[i].canvas # Undefined) <=> (task[i].created = 1)
           /\ task[i].released # Undefined => task[i].released = task[i].canvas
           /\ task[i].destroyed = 1 => task[i].released # Undefined

\* The second page's call has destroyed its canvas while the first page's
\* render is in flight on another.
C34_Witness ==
    /\ Len(task) >= 2
    /\ task[1].st = "render"
    /\ task[2].released = Some(2)
    /\ task[1].canvas = Some(1)

\* The number of entries of l equal to x.
Count(l, x) == Cardinality({k \in 1..Len(l) : l[k] = x})

\* C35: a returned call holds as many outputs for a page of the document as
\* the list holds entries for it, outputs for the same page have the same
\* name, and a call with an empty list opens no page, returns an empty result
\* and has opened and cleaned up the document exactly once.
C35_NoDeduplication ==
    (props.pagesToProcess # Undefined /\ outcome.kind = "returned") =>
        /\ \A p \in 1..numPages :
               Count(PageNumbers(outcome.value), p) = Count(Get(props.pagesToProcess), p)
        /\ \A i, j \in 1..Len(outcome.value) :
               outcome.value[i].pageNumber = outcome.value[j].pageNumber
                   => outcome.value[i].name = outcome.value[j].name
        /\ props.pagesToProcess = Some(<< >>) =>
               /\ outcome.value = << >>
               /\ task = << >>
               /\ calls.opened = 1
               /\ calls.cleanup = 1

\* Page 1 asked for twice and returned twice under one name.
C35_Witness ==
    /\ outcome.kind = "returned"
    /\ props.pagesToProcess = Some(<<1, 1>>)
    /\ Len(outcome.value) = 2
    /\ outcome.value[1].pageNumber = 1
    /\ outcome.value[2].pageNumber = 1
    /\ outcome.value[1].name = outcome.value[2].name

\* The steps of a page render in their order.
StepOrder == <<"getPage", "create", "render", "toBuffer", "page.cleanup", "destroy">>

\* The place of a step in the order.
Rank(step) == CHOOSE k \in 1..Len(StepOrder) : StepOrder[k] = step

\* C36: the steps a call of processPdfPage has completed follow the order
\* getPage, create, render, toBuffer, page.cleanup, destroy; the PNG is encoded
\* only when content is wanted, only after the render completed and before
\* the canvas is destroyed; a fulfilled call has completed every step.
C36_StepOrder ==
    \A i \in Tasks :
        LET steps == task[i].steps
        IN  /\ \A k, l \in 1..Len(steps) : k < l => Rank(steps[k]) < Rank(steps[l])
            /\ (\E k \in 1..Len(steps) : steps[k] = "toBuffer") =>
                   /\ returnPageContent(props)
                   /\ \E k \in 1..Len(steps) : steps[k] = "render"
            /\ task[i].st = "render" => steps = <<"getPage", "create">>
            /\ task[i].st = "fulfilled" =>
                   steps = <<"getPage", "create", "render">>
                           \o (IF props.returnPageContent = Some(FALSE) THEN << >>
                               ELSE <<"toBuffer">>)
                           \o <<"page.cleanup", "destroy">>

\* A page rendered with its content: all six steps in order.
C36_Witness ==
    \E i \in Tasks :
        task[i].steps = <<"getPage", "create", "render", "toBuffer", "page.cleanup", "destroy">>
\* C37: when every awaited operation settles, every call of pdfToPng
\* eventually returns or rejects.
C37_Terminates == <>(outcome.kind # "pending")

\* A call returned after a later page's render settled before an earlier
\* one's and after its files were written.
C37_Witness ==
    /\ outcome.kind = "returned"
    /\ overtaken
    /\ Len(outcome.value) >= 2
    /\ files # {}
====
